---------------------------- MODULE Spec2Model ----------------------------
(***************************************************************************)
(* The fairness pipeline of notebooks/02_Fairness.ipynb:                   *)
(*   load dataset -> split -> BinaryLabelDatasetMetric -> Reweighing       *)
(*   -> BinaryLabelDatasetMetric.                                          *)
(* The notebook is a sequence of calls into aif360 and numpy; each         *)
(* operator below models the library routine the named notebook line       *)
(* calls, computed the way the library computes it.                        *)
(*                                                                         *)
(* Numbers are float64 in the program.  They are modelled as exact         *)
(* fractions <<n, d>> in lowest terms with d > 0, extended by the three    *)
(* non-finite values numpy division produces: <<0,0>> (nan), <<1,0>>       *)
(* (inf) and <<-1,0>> (-inf).  Rounding is not modelled.                   *)
(***************************************************************************)
EXTENDS Integers, Sequences, FiniteSets, TLC

\* ------------------------------------------------------------------ bounds
MaxRows == 7

\* cut points offered to split(), in tenths: 0.0, 0.5, 0.7, 0.9, 1.0
CutTenths == {0, 5, 7, 9, 10}

\* ------------------------------------------------- float64 as fractions
NaN == <<0, 0>>
Inf == <<1, 0>>
NegInf == <<-1, 0>>

Abs(x) == IF x < 0 THEN -x ELSE x

Sign(x) == IF x < 0 THEN -1 ELSE IF x = 0 THEN 0 ELSE 1

RECURSIVE GCD(_, _)
GCD(a, b) == IF b = 0 THEN a ELSE GCD(b, a % b)

\* n/d in lowest terms with a positive denominator; x/0 as numpy gives it
Rat(n, d) ==
    IF d = 0 THEN <<Sign(n), 0>>
    ELSE LET g == GCD(Abs(n), Abs(d))
         IN  <<Sign(d) * (n \div g), Abs(d) \div g>>

IsFinite(x) == x[2] # 0

IsNaN(x) == x = NaN

FAdd(x, y) ==
    IF IsFinite(x) /\ IsFinite(y)
    THEN LET g == GCD(x[2], y[2])
         IN  Rat(x[1] * (y[2] \div g) + y[1] * (x[2] \div g), (x[2] \div g) * y[2])
    ELSE IF IsNaN(x) \/ IsNaN(y) THEN NaN
    ELSE IF ~IsFinite(x) /\ ~IsFinite(y) /\ x # y THEN NaN
    ELSE IF ~IsFinite(x) THEN x ELSE y

FNeg(x) == <<-x[1], x[2]>>

\* FSub giving the size of the difference
FSub_magnitude(x, y) == LET d == FAdd(x, FNeg(y)) IN <<Abs(d[1]), d[2]>>

FSub(x, y) == FAdd(x, FNeg(y))

FMul(x, y) ==
    IF IsFinite(x) /\ IsFinite(y)
    THEN LET g1 == GCD(Abs(x[1]), y[2])
             g2 == GCD(Abs(y[1]), x[2])
         IN  Rat((x[1] \div g1) * (y[1] \div g2), (x[2] \div g2) * (y[2] \div g1))
    ELSE IF IsNaN(x) \/ IsNaN(y) \/ x[1] = 0 \/ y[1] = 0 THEN NaN
    ELSE <<Sign(x[1]) * Sign(y[1]), 0>>

FDiv(x, y) ==
    IF IsFinite(x) /\ IsFinite(y)
    THEN IF y[1] = 0 THEN <<Sign(x[1]), 0>>
         ELSE FMul(x, <<Sign(y[1]) * y[2], Abs(y[1])>>)
    ELSE IF IsNaN(x) \/ IsNaN(y) THEN NaN
    ELSE IF ~IsFinite(x) /\ ~IsFinite(y) THEN NaN
    ELSE IF IsFinite(x) THEN <<0, 1>>
    ELSE <<Sign(x[1]) * (IF y[1] < 0 THEN -1 ELSE 1), 0>>

FLess(x, y) == IsFinite(x) /\ IsFinite(y) /\ x[1] * y[2] < y[1] * x[2]

FLeq(x, y) == IsFinite(x) /\ IsFinite(y) /\ x[1] * y[2] <= y[1] * x[2]

Zero == <<0, 1>>
One == <<1, 1>>

\* int(x) rounding up instead of truncating
Trunc_up(x) == IF x[1] % x[2] = 0 THEN x[1] \div x[2] ELSE (x[1] \div x[2]) + 1

\* int(x): truncation towards zero of a finite fraction
Trunc(x) == Sign(x[1]) * (Abs(x[1]) \div x[2])

\* ---------------------------------------------------------------- dataset
favorable_label == 1
unfavorable_label == 2

privileged_groups == {[age |-> 1]}
unprivileged_groups == {[age |-> 0]}

\* the month column of the first five rows the notebook displays
Months == <<6, 48, 12, 42, 24>>

\* one row of the pickled BinaryLabelDataset: instance name, one feature
\* column (month), protected attribute, label, instance weight
Row(i, a, l) ==
    [name |-> i, month |-> Months[(i % 5) + 1], age |-> a, label |-> l, w |-> One]

\* (age, label) of the k-th of the four cells, in the order
\* privileged-favorable, privileged-unfavorable, unprivileged-favorable,
\* unprivileged-unfavorable
CellAge(k) == IF k <= 2 THEN 1 ELSE 0

CellLabel(k) == IF k % 2 = 1 THEN favorable_label ELSE unfavorable_label

\* the cell of the i-th row (1-based) of a dataset holding c[k] rows of cell k,
\* cell after cell
CellAt(c, i) ==
    IF i <= c[1] THEN 1
    ELSE IF i <= c[1] + c[2] THEN 2
    ELSE IF i <= c[1] + c[2] + c[3] THEN 3
    ELSE 4

DatasetOf(c) ==
    [i \in 1..(c[1] + c[2] + c[3] + c[4]) |->
        Row(i - 1, CellAge(CellAt(c, i)), CellLabel(CellAt(c, i)))]

\* the datasets the pickle may hold: every mix of the four cells up to
\* MaxRows rows, all instance weights 1.0
LoadableDatasets ==
    { DatasetOf(c) : c \in { x \in [1..4 -> 0..MaxRows] : x[1] + x[2] + x[3] + x[4] <= MaxRows } }

\* -------------------------------------------------------------- np.random
\* The generator is modelled as a full-period congruential generator on
\* 0..15, the shuffle as Fisher-Yates driven by it.
rng_seed(s) == (7 * s + 1) % 16

rng_next(s) == (5 * s + 3) % 16

Swap(f, i, j) == [f EXCEPT ![i] = f[j], ![j] = f[i]]

RECURSIVE Shuffle(_, _, _)
Shuffle(order, i, s) ==
    IF i <= 1 THEN [order |-> order, rng |-> s]
    ELSE LET s2 == rng_next(s)
             j == (s2 % i) + 1
         IN  Shuffle(Swap(order, i, j), i - 1, s2)

\* np.random.permutation(n): a permutation of 1..n and the generator after
permutation(n, s) == Shuffle([i \in 1..n |-> i], n, s)

\* ------------------------------------------------------------------ split
CutVals == {Rat(k, 10) : k \in CutTenths}

\* the lists of cut points offered to split(): every list of up to two cut
\* points (the notebook passes two and unpacks three datasets), and one list
\* of three
CutLists ==
    UNION { [1..n -> CutVals] : n \in 0..2 } \cup {<<Rat(5, 10), Rat(7, 10), Rat(9, 10)>>}

\* seed arguments offered to split(): None (written -1), 0 and 1
SeedArgs == {-1, 0, 1}

\* sary[st:end] for 0 <= st, end <= len
Slice(s, st, end) == SubSeq(s, st + 1, end)

\* array_split with every slice running one element too far
array_split_overlap(ary, indices) ==
    LET div_points == <<0>> \o indices \o <<Len(ary)>>
    IN  [i \in 1..(Len(indices) + 1) |->
            Slice(ary, div_points[i],
                  IF div_points[i + 1] < Len(ary) THEN div_points[i + 1] + 1 ELSE Len(ary))]

\* np.array_split(ary, indices)
array_split(ary, indices) ==
    LET div_points == <<0>> \o indices \o <<Len(ary)>>
    IN  [i \in 1..(Len(indices) + 1) |-> Slice(ary, div_points[i], div_points[i + 1])]

\* [int(x * n) for x in num_or_size_splits], for a list of fractions (all <= 1)
split_points(n, num_or_size_splits) ==
    [i \in 1..Len(num_or_size_splits) |-> Trunc(FMul(num_or_size_splits[i], <<n, 1>>))]

\* the generator split() draws from, reading the seed argument as never given
seeded_never(seed, rng0) == rng0

\* if seed is not None: np.random.seed(seed)
seeded(seed, rng0) == IF seed # -1 THEN rng_seed(seed) ELSE rng0

\* split() with the permutation applied to the receiver's own rows
split_shuffles_in_place(ds, num_or_size_splits, shuffle, seed, rng0) ==
    LET s1 == seeded(seed, rng0)
        n == Len(ds)
        sizes == split_points(n, num_or_size_splits)
        p == IF shuffle THEN permutation(n, s1)
             ELSE [order |-> [i \in 1..n |-> i], rng |-> s1]
        shuffled == [i \in 1..n |-> ds[p.order[i]]]
    IN  [self |-> shuffled, folds |-> array_split(shuffled, sizes), rng |-> p.rng]

\* StructuredDataset.split(num_or_size_splits, shuffle, seed): the folds are
\* copies indexed by the permutation; self is the receiver after the call
split(ds, num_or_size_splits, shuffle, seed, rng0) ==
    LET s1 == seeded(seed, rng0)
        n == Len(ds)
        sizes == split_points(n, num_or_size_splits)
        p == IF shuffle THEN permutation(n, s1)
             ELSE [order |-> [i \in 1..n |-> i], rng |-> s1]
        shuffled == [i \in 1..n |-> ds[p.order[i]]]
    IN  [self |-> ds, folds |-> array_split(shuffled, sizes), rng |-> p.rng]

\* -------------------------------------------------- BinaryLabelDatasetMetric
RECURSIVE SumW(_)
SumW(rows) == IF rows = <<>> THEN Zero ELSE FAdd(Head(rows).w, SumW(Tail(rows)))

\* utils.compute_boolean_conditioning_vector: a row is selected when it
\* matches every attribute of some group; no groups selects every row
Matches(r, groups) == groups = {} \/ \E g \in groups : \A a \in DOMAIN g : r[a] = g[a]

\* num_instances adding up the rows of every group
num_instances_any_group(ds, groups) == SumW(ds)

\* utils.compute_num_instances: total instance weight of the selected rows
num_instances(ds, groups) == SumW(SelectSeq(ds, LAMBDA r : Matches(r, groups)))

\* num_with_label selecting the rows of the label in every group
num_with_label_any_group(ds, groups, l) ==
    SumW(SelectSeq(ds, LAMBDA r : r.label = l))

\* utils.compute_num_pos_neg: total instance weight of the selected rows
\* carrying the given label
num_with_label(ds, groups, l) ==
    SumW(SelectSeq(ds, LAMBDA r : Matches(r, groups) /\ r.label = l))

num_positives(ds, groups) == num_with_label(ds, groups, favorable_label)

base_rate(ds, groups) == FDiv(num_positives(ds, groups), num_instances(ds, groups))

\* mean_difference with the two groups exchanged
mean_difference_swapped(ds, unpriv, priv) == FSub(base_rate(ds, priv), base_rate(ds, unpriv))

\* Metric.difference(base_rate): unprivileged minus privileged
mean_difference(ds, unpriv, priv) == FSub(base_rate(ds, unpriv), base_rate(ds, priv))

\* disparate_impact as privileged over unprivileged
disparate_impact_inverted(ds, unpriv, priv) == FDiv(base_rate(ds, priv), base_rate(ds, unpriv))

\* Metric.ratio(base_rate): unprivileged over privileged
disparate_impact(ds, unpriv, priv) == FDiv(base_rate(ds, unpriv), base_rate(ds, priv))

\* Measure printing the difference under both headings
Measure_both_differences(ds) ==
    [mean_difference |-> mean_difference(ds, unprivileged_groups, privileged_groups),
     disparate_impact |-> mean_difference(ds, unprivileged_groups, privileged_groups)]

\* the two numbers a metric cell prints
Measure(ds) ==
    [mean_difference |-> mean_difference(ds, unprivileged_groups, privileged_groups),
     disparate_impact |-> disparate_impact(ds, unprivileged_groups, privileged_groups)]

\* --------------------------------------------------------------- Reweighing
\* reweighing_weights with the unprivileged-favorable weight taking the
\* privileged total (n_p for n_up)
reweighing_weights_wrong_group(n, n_p, n_up, n_fav, n_unfav, n_p_fav, n_p_unfav, n_up_fav, n_up_unfav) ==
    [w_p_fav |-> FDiv(FMul(n_fav, n_p), FMul(n, n_p_fav)),
     w_p_unfav |-> FDiv(FMul(n_unfav, n_p), FMul(n, n_p_unfav)),
     w_up_fav |-> FDiv(FMul(n_fav, n_p), FMul(n, n_up_fav)),
     w_up_unfav |-> FDiv(FMul(n_unfav, n_up), FMul(n, n_up_unfav))]

\* the four reweighing weights from the total instance weights:
\* w = n_label * n_group / (n * n_cell)
reweighing_weights(n, n_p, n_up, n_fav, n_unfav, n_p_fav, n_p_unfav, n_up_fav, n_up_unfav) ==
    [w_p_fav |-> FDiv(FMul(n_fav, n_p), FMul(n, n_p_fav)),
     w_p_unfav |-> FDiv(FMul(n_unfav, n_p), FMul(n, n_p_unfav)),
     w_up_fav |-> FDiv(FMul(n_fav, n_up), FMul(n, n_up_fav)),
     w_up_unfav |-> FDiv(FMul(n_unfav, n_up), FMul(n, n_up_unfav))]

\* Reweighing_fit counting rows where the library adds instance weights
Reweighing_fit_row_counts(ds, unpriv, priv) ==
    LET ones == [i \in 1..Len(ds) |-> [ds[i] EXCEPT !.w = One]]
    IN  reweighing_weights(num_instances(ones, {}),
                           num_instances(ones, priv),
                           num_instances(ones, unpriv),
                           num_with_label(ones, {}, favorable_label),
                           num_with_label(ones, {}, unfavorable_label),
                           num_with_label(ones, priv, favorable_label),
                           num_with_label(ones, priv, unfavorable_label),
                           num_with_label(ones, unpriv, favorable_label),
                           num_with_label(ones, unpriv, unfavorable_label))

\* Reweighing.fit: the four weights of a dataset, from the total instance
\* weight of the dataset, of each group, of each label and of each cell
Reweighing_fit(ds, unpriv, priv) ==
    reweighing_weights(num_instances(ds, {}),
                       num_instances(ds, priv),
                       num_instances(ds, unpriv),
                       num_with_label(ds, {}, favorable_label),
                       num_with_label(ds, {}, unfavorable_label),
                       num_with_label(ds, priv, favorable_label),
                       num_with_label(ds, priv, unfavorable_label),
                       num_with_label(ds, unpriv, favorable_label),
                       num_with_label(ds, unpriv, unfavorable_label))

\* learned_weights with the two middle weights exchanged
learned_weights_swapped(rw) == <<rw.w_p_fav, rw.w_up_fav, rw.w_p_unfav, rw.w_up_unfav>>

\* the tuple the notebook displays:
\* (RW.w_p_fav, RW.w_p_unfav, RW.w_up_fav, RW.w_up_unfav)
learned_weights(rw) == <<rw.w_p_fav, rw.w_p_unfav, rw.w_up_fav, rw.w_up_unfav>>

\* Reweighing_transform giving the unprivileged-unfavorable rows the weight
\* of the unprivileged-favorable cell
Reweighing_transform_wrong_cell(ds, rw, unpriv, priv) ==
    [i \in 1..Len(ds) |->
        LET r == ds[i]
            f == IF Matches(r, priv) /\ r.label = favorable_label THEN rw.w_p_fav
                 ELSE IF Matches(r, priv) /\ r.label = unfavorable_label THEN rw.w_p_unfav
                 ELSE IF Matches(r, unpriv) THEN rw.w_up_fav
                 ELSE One
        IN  [r EXCEPT !.w = FMul(r.w, f)]]

\* Reweighing.transform: a copy of the dataset in which the weight of every
\* row of a cell is multiplied by the weight of that cell
Reweighing_transform(ds, rw, unpriv, priv) ==
    [i \in 1..Len(ds) |->
        LET r == ds[i]
            f == IF Matches(r, priv) /\ r.label = favorable_label THEN rw.w_p_fav
                 ELSE IF Matches(r, priv) /\ r.label = unfavorable_label THEN rw.w_p_unfav
                 ELSE IF Matches(r, unpriv) /\ r.label = favorable_label THEN rw.w_up_fav
                 ELSE IF Matches(r, unpriv) /\ r.label = unfavorable_label THEN rw.w_up_unfav
                 ELSE One
        IN  [r EXCEPT !.w = FMul(r.w, f)]]

\* fit_transform writing the new weights into the dataset it was given
fit_transform_in_place(ds, unpriv, priv) ==
    LET rw == Reweighing_fit(ds, unpriv, priv)
        out == Reweighing_transform(ds, rw, unpriv, priv)
    IN  [dataset |-> out, RW |-> rw, transformed |-> out]

\* Transformer.fit_transform: fit(dataset).transform(dataset); transform works
\* on dataset.copy(deepcopy=True), so the argument (dataset) is as it was
fit_transform(ds, unpriv, priv) ==
    LET rw == Reweighing_fit(ds, unpriv, priv)
    IN  [dataset |-> ds, RW |-> rw,
         transformed |-> Reweighing_transform(ds, rw, unpriv, priv)]

\* the value of a name the notebook has not assigned yet
Unset == <<>>

\* the place of a number that has not been computed (no float has this form)
NotComputed == <<0, -1>>

NoMetric == [mean_difference |-> NotComputed, disparate_impact |-> NotComputed]

NoWeights == [w_p_fav |-> NotComputed, w_p_unfav |-> NotComputed,
              w_up_fav |-> NotComputed, w_up_unfav |-> NotComputed]

\* ------------------------------------------------------------------ state
VARIABLES
    pc,                  \* the last notebook cell run
    rng,                 \* state of the global numpy generator
    dataset_orig,        \* the loaded dataset
    cuts, shuffle_arg,   \* arguments of the split() call
    seed_arg,            \* its seed argument, -1 for None
    folds,               \* the datasets split() returned
    folds_prev,          \* the datasets the previous run of the split cell returned
    metric_orig_train,   \* the two metrics of the training fold
    RW,                  \* the fitted Reweighing object (its four weights)
    dataset_transf_train,\* the dataset fit_transform returned
    metric_transf_train, \* the two metrics of the transformed dataset
    fits,                \* number of fit_transform calls made so far
    raised               \* the exception the last call raised, "none" if it returned

vars == <<pc, rng, dataset_orig, cuts, shuffle_arg, seed_arg, folds, folds_prev,
          metric_orig_train, RW, dataset_transf_train, metric_transf_train, fits,
          raised>>

\* dataset_orig_train is the first dataset split() returns
dataset_orig_train == folds[1]

\* np.random.seed(0), then pickle.load
Init ==
    /\ pc = "loaded"
    /\ rng = rng_seed(0)
    /\ dataset_orig \in LoadableDatasets
    /\ cuts = <<>>
    /\ shuffle_arg = FALSE
    /\ seed_arg = -1
    /\ folds = <<>>
    /\ folds_prev = <<>>
    /\ metric_orig_train = NoMetric
    /\ RW = NoWeights
    /\ dataset_transf_train = Unset
    /\ metric_transf_train = NoMetric
    /\ fits = 0
    /\ raised = "none"

\* dataset_orig.split(cuts, shuffle=..., seed=...)
Split ==
    /\ pc = "loaded"
    /\ \E c \in CutLists, sh \in BOOLEAN :
       \E sd \in (IF sh THEN SeedArgs ELSE {-1}) :
          LET r == split(dataset_orig, c, sh, sd, rng)
          IN  /\ dataset_orig' = r.self
              /\ folds' = r.folds
              /\ rng' = r.rng
              /\ cuts' = c
              /\ shuffle_arg' = sh
              /\ seed_arg' = sd
    /\ pc' = "split"
    /\ raised' = "none"
    /\ UNCHANGED <<folds_prev, metric_orig_train, RW, dataset_transf_train,
                   metric_transf_train, fits>>

\* BinaryLabelDatasetMetric(dataset_orig_train, ...): mean_difference(),
\* disparate_impact()
MetricOrig ==
    /\ pc = "split"
    /\ metric_orig_train' = Measure(dataset_orig_train)
    /\ pc' = "measured"
    /\ raised' = "none"
    /\ UNCHANGED <<rng, dataset_orig, cuts, shuffle_arg, seed_arg, folds, folds_prev,
                   RW, dataset_transf_train, metric_transf_train, fits>>

\* RW = Reweighing(...); dataset_transf_train = RW.fit_transform(dataset_orig_train)
FitTransform ==
    /\ pc = "measured"
    /\ LET r == fit_transform(dataset_orig_train, unprivileged_groups, privileged_groups)
       IN  /\ RW' = r.RW
           /\ dataset_transf_train' = r.transformed
           /\ folds' = [folds EXCEPT ![1] = r.dataset]
    /\ fits' = 1
    /\ pc' = "reweighed"
    /\ raised' = "none"
    /\ UNCHANGED <<rng, dataset_orig, cuts, shuffle_arg, seed_arg, folds_prev,
                   metric_orig_train, metric_transf_train>>

\* BinaryLabelDatasetMetric(dataset_transf_train, ...): mean_difference(),
\* disparate_impact()
MetricTransf ==
    /\ pc = "reweighed"
    /\ metric_transf_train' = Measure(dataset_transf_train)
    /\ pc' = "remeasured"
    /\ raised' = "none"
    /\ UNCHANGED <<rng, dataset_orig, cuts, shuffle_arg, seed_arg, folds, folds_prev,
                   metric_orig_train, RW, dataset_transf_train, fits>>

Next == Split \/ MetricOrig \/ FitTransform \/ MetricTransf

Spec == Init /\ [][Next]_vars

\* ------------------------------------------------- running a cell once more
\* the split cell run a second time with the arguments of the first run, the
\* global generator being where the first run left it
SplitAgain ==
    /\ pc = "split"
    /\ folds_prev = <<>>
    /\ LET r == split(dataset_orig, cuts, shuffle_arg, seed_arg, rng)
       IN  /\ dataset_orig' = r.self
           /\ folds' = r.folds
           /\ rng' = r.rng
    /\ folds_prev' = folds
    /\ pc' = "split"
    /\ raised' = "none"
    /\ UNCHANGED <<cuts, shuffle_arg, seed_arg, metric_orig_train, RW,
                   dataset_transf_train, metric_transf_train, fits>>

NextResplit == Split \/ SplitAgain

SpecResplit == Init /\ [][NextResplit]_vars

\* dataset_orig.split(cuts) with at most one cut point and the default
\* shuffle=False: the first fold is a prefix of the dataset, all of it when
\* the cut point is 1.0 or there is none
SplitUnshuffled ==
    /\ pc = "loaded"
    /\ \E c \in {x \in CutLists : Len(x) <= 1} :
          LET r == split(dataset_orig, c, FALSE, -1, rng)
          IN  /\ dataset_orig' = r.self
              /\ folds' = r.folds
              /\ rng' = r.rng
              /\ cuts' = c
    /\ shuffle_arg' = FALSE
    /\ seed_arg' = -1
    /\ pc' = "split"
    /\ raised' = "none"
    /\ UNCHANGED <<folds_prev, metric_orig_train, RW, dataset_transf_train,
                   metric_transf_train, fits>>

\* number of fit_transform calls followed
MaxFits == 2

\* RW.fit_transform applied to the dataset it returned
Refit ==
    /\ pc = "remeasured"
    /\ fits < MaxFits
    /\ LET r == fit_transform(dataset_transf_train, unprivileged_groups, privileged_groups)
       IN  /\ RW' = r.RW
           /\ dataset_transf_train' = r.transformed
    /\ fits' = fits + 1
    /\ pc' = "reweighed"
    /\ raised' = "none"
    /\ UNCHANGED <<rng, dataset_orig, cuts, shuffle_arg, seed_arg, folds, folds_prev,
                   metric_orig_train, metric_transf_train>>

NextRefit == SplitUnshuffled \/ MetricOrig \/ FitTransform \/ MetricTransf \/ Refit

SpecRefit == Init /\ [][NextRefit]_vars

\* ================================================================== claims
\* helpers of the claims: row counts and weight totals taken directly over
\* the row indices
RowsOf(ds, a, l) == {i \in DOMAIN ds : ds[i].age = a /\ ds[i].label = l}

GroupRows(ds, a) == {i \in DOMAIN ds : ds[i].age = a}

LabelRows(ds, l) == {i \in DOMAIN ds : ds[i].label = l}

RECURSIVE TotalWeight(_, _)
TotalWeight(ds, S) ==
    IF S = {} THEN Zero
    ELSE LET i == CHOOSE j \in S : TRUE
         IN  FAdd(ds[i].w, TotalWeight(ds, S \ {i}))

\* weighted favorable-outcome rate of the rows with age = a
GroupRate(ds, a) ==
    FDiv(TotalWeight(ds, RowsOf(ds, a, favorable_label)), TotalWeight(ds, GroupRows(ds, a)))

FourCellsNonEmpty(ds) == \A k \in 1..4 : RowsOf(ds, CellAge(k), CellLabel(k)) # {}

UniformWeights(ds) == \A i \in DOMAIN ds : ds[i].w = One

HasSplit == pc # "loaded"

Reweighed == pc \in {"reweighed", "remeasured"}

F(x) == <<x, 1>>

\* C1: for a training dataset with all weights 1.0 and four non-empty cells,
\* the metrics recomputed on the reweighed dataset are exactly 0 (mean
\* difference) and exactly 1 (disparate impact): the weighted favorable rates
\* of the two groups are equal.
C1_ReweighedIsFair ==
    (pc = "remeasured" /\ UniformWeights(dataset_orig_train)
        /\ FourCellsNonEmpty(dataset_orig_train))
    => /\ metric_transf_train.mean_difference = Zero
       /\ metric_transf_train.disparate_impact = One
       /\ GroupRate(dataset_transf_train, 0) = GroupRate(dataset_transf_train, 1)

\* a biased training dataset has been reweighed and measured again
C1_Witness ==
    /\ pc = "remeasured"
    /\ UniformWeights(dataset_orig_train)
    /\ FourCellsNonEmpty(dataset_orig_train)
    /\ FLess(metric_orig_train.mean_difference, Zero)
    /\ metric_orig_train.disparate_impact # One

C3_MarginalsPreserved ==
    (Reweighed /\ UniformWeights(dataset_orig_train)
        /\ FourCellsNonEmpty(dataset_orig_train))
    => /\ \A a \in {0, 1} :
             TotalWeight(dataset_transf_train, GroupRows(dataset_transf_train, a))
                = TotalWeight(dataset_orig_train, GroupRows(dataset_orig_train, a))
       /\ \A l \in {favorable_label, unfavorable_label} :
             TotalWeight(dataset_transf_train, LabelRows(dataset_transf_train, l))
                = TotalWeight(dataset_orig_train, LabelRows(dataset_orig_train, l))

\* the reweighing changed weights
C3_Witness ==
    /\ Reweighed
    /\ UniformWeights(dataset_orig_train)
    /\ FourCellsNonEmpty(dataset_orig_train)
    /\ ~UniformWeights(dataset_transf_train)

\* valid cut points: strictly increasing, all inside the open interval (0,1)
ValidCuts(c) ==
    /\ \A i \in DOMAIN c : FLess(Zero, c[i]) /\ FLess(c[i], One)
    /\ \A i, j \in DOMAIN c : i < j => FLess(c[i], c[j])

Names(ds) == {ds[i].name : i \in DOMAIN ds}

RECURSIVE TotalLen(_)
TotalLen(fs) == IF fs = <<>> THEN 0 ELSE Len(Head(fs)) + TotalLen(Tail(fs))

\* floor(c * n) for a fraction c >= 0
Floor(c, n) == (c[1] * n) \div c[2]

\* c_0 = 0, c_1 .. c_N the cut points, c_(N+1) = 1
CutAt(c, k) == IF k = 0 THEN Zero ELSE IF k > Len(c) THEN One ELSE c[k]

\* C4: for valid cut points, with or without shuffling, split() returns N+1
\* datasets that partition the input rows: the sizes add up to the input
\* size, no row name occurs twice, and together they hold exactly the input
\* rows.
C4_SplitIsPartition ==
    (HasSplit /\ ValidCuts(cuts))
    => /\ Len(folds) = Len(cuts) + 1
       /\ TotalLen(folds) = Len(dataset_orig)
       /\ \A k \in DOMAIN folds : Cardinality(Names(folds[k])) = Len(folds[k])
       /\ \A j, k \in DOMAIN folds : j # k => Names(folds[j]) \cap Names(folds[k]) = {}
       /\ UNION {Names(folds[k]) : k \in DOMAIN folds} = Names(dataset_orig)
       /\ \A k \in DOMAIN folds : \A i \in DOMAIN folds[k] :
             \E j \in DOMAIN dataset_orig : folds[k][i] = dataset_orig[j]

\* a shuffled three-way split with no empty part
C4_Witness ==
    /\ HasSplit
    /\ ValidCuts(cuts)
    /\ shuffle_arg
    /\ Len(cuts) = 2
    /\ \A k \in DOMAIN folds : folds[k] # <<>>
    /\ folds[1] # SubSeq(dataset_orig, 1, Len(folds[1]))

C6_InvalidSplitRaises ==
    pc = "split"
    => IF ValidCuts(cuts)
       THEN raised = "none" /\ Len(folds) = Len(cuts) + 1
       ELSE raised = "InvalidSplitError" /\ folds = <<>>

\* C7: either metric fails with EmptyGroupError, and returns no number, when
\* the privileged or the unprivileged predicate matches no row.
C7_EmptyGroupRaises ==
    (pc = "measured"
        /\ (GroupRows(dataset_orig_train, 0) = {} \/ GroupRows(dataset_orig_train, 1) = {}))
    => raised = "EmptyGroupError" /\ metric_orig_train = NoMetric

\* C8: with both groups non-empty and a privileged favorable rate of 0,
\* disparate_impact() signals UndefinedRatioError and returns no value.
C8_ZeroRateRaises ==
    (pc = "measured"
        /\ GroupRows(dataset_orig_train, 0) # {} /\ GroupRows(dataset_orig_train, 1) # {}
        /\ GroupRate(dataset_orig_train, 1) = Zero)
    => raised = "UndefinedRatioError" /\ metric_orig_train.disparate_impact = NotComputed

\* C9: fit_transform fails with EmptyCellError and produces no dataset when
\* one of the four cells has no row.
C9_EmptyCellRaises ==
    (pc = "reweighed" /\ ~FourCellsNonEmpty(dataset_orig_train))
    => raised = "EmptyCellError" /\ dataset_transf_train = Unset /\ RW = NoWeights

\* C10: with two non-empty groups, mean_difference() is the weighted
\* favorable rate of the unprivileged rows minus that of the privileged rows,
\* and lies in [-1, 1]; on the training dataset (all weights 1.0) the rates
\* are the row-count ratios.
C10_MeanDifference ==
    /\ (pc \in {"measured", "reweighed", "remeasured"}
           /\ GroupRows(dataset_orig_train, 0) # {} /\ GroupRows(dataset_orig_train, 1) # {})
       => LET md == metric_orig_train.mean_difference
              u == Cardinality(GroupRows(dataset_orig_train, 0))
              p == Cardinality(GroupRows(dataset_orig_train, 1))
              uf == Cardinality(RowsOf(dataset_orig_train, 0, favorable_label))
              pf == Cardinality(RowsOf(dataset_orig_train, 1, favorable_label))
          IN  /\ md = FSub(GroupRate(dataset_orig_train, 0), GroupRate(dataset_orig_train, 1))
              /\ md = Rat(uf * p - pf * u, u * p)
              /\ FLeq(F(-1), md) /\ FLeq(md, F(1))
    /\ (pc = "remeasured"
           /\ GroupRows(dataset_transf_train, 0) # {} /\ GroupRows(dataset_transf_train, 1) # {})
       => LET md == metric_transf_train.mean_difference
          IN  /\ md = FSub(GroupRate(dataset_transf_train, 0),
                           GroupRate(dataset_transf_train, 1))
              /\ FLeq(F(-1), md) /\ FLeq(md, F(1))

\* a training dataset that favours the unprivileged group has been measured
C10_Witness ==
    /\ pc = "measured"
    /\ GroupRows(dataset_orig_train, 0) # {} /\ GroupRows(dataset_orig_train, 1) # {}
    /\ FLess(Zero, metric_orig_train.mean_difference)

\* C11: when both groups are non-empty and the privileged favorable rate is
\* not zero, disparate_impact() is the unprivileged favorable rate divided by
\* the privileged one, a finite number that is never negative; with all
\* weights 1 it is the ratio of the row-count rates.
C11_DisparateImpact ==
    /\ (pc \in {"measured", "reweighed", "remeasured"}
           /\ GroupRows(dataset_orig_train, 0) # {} /\ GroupRows(dataset_orig_train, 1) # {}
           /\ GroupRate(dataset_orig_train, 1) # Zero)
       => LET di == metric_orig_train.disparate_impact
              u == Cardinality(GroupRows(dataset_orig_train, 0))
              p == Cardinality(GroupRows(dataset_orig_train, 1))
              uf == Cardinality(RowsOf(dataset_orig_train, 0, favorable_label))
              pf == Cardinality(RowsOf(dataset_orig_train, 1, favorable_label))
          IN  /\ di = FDiv(GroupRate(dataset_orig_train, 0), GroupRate(dataset_orig_train, 1))
              /\ di = Rat(uf * p, u * pf)
              /\ FLeq(Zero, di)
    /\ (pc = "remeasured"
           /\ GroupRows(dataset_transf_train, 0) # {} /\ GroupRows(dataset_transf_train, 1) # {}
           /\ GroupRate(dataset_transf_train, 1) # Zero)
       => LET di == metric_transf_train.disparate_impact
          IN  /\ di = FDiv(GroupRate(dataset_transf_train, 0),
                           GroupRate(dataset_transf_train, 1))
              /\ FLeq(Zero, di)

\* a training dataset whose unprivileged rate is the higher one, and not all
\* of whose privileged rows are unfavorable, has been measured
C11_Witness ==
    /\ pc = "measured"
    /\ GroupRows(dataset_orig_train, 0) # {} /\ GroupRows(dataset_orig_train, 1) # {}
    /\ GroupRate(dataset_orig_train, 1) # Zero
    /\ FLess(One, metric_orig_train.disparate_impact)

\* the group predicates offered to the metric: age = 0, age = 1, either
GroupChoices ==
    {unprivileged_groups, privileged_groups, unprivileged_groups \cup privileged_groups}

MatchesSomeRow(ds, groups) == \E i \in DOMAIN ds : Matches(ds[i], groups)

SameButWeight(a, b) == [a EXCEPT !.w = b.w] = b

\* C13: the fit_transform call leaves the dataset it was given (and the
\* loaded dataset and the other folds) exactly as it was, and the dataset it
\* returns has the same rows in the same order with the same name, features,
\* label and protected attribute: only instance weights may differ.
C13_ReweighingChangesOnlyWeights ==
    [][(pc = "measured" /\ pc' = "reweighed")
       => /\ folds' = folds
          /\ dataset_orig' = dataset_orig
          /\ Len(dataset_transf_train') = Len(dataset_orig_train)
          /\ \A i \in DOMAIN dataset_orig_train :
                SameButWeight(dataset_transf_train'[i], dataset_orig_train[i])]_vars

\* a shuffled training fold has been reweighed and some weight has changed
C13_Witness ==
    /\ pc = "reweighed"
    /\ shuffle_arg
    /\ Len(dataset_orig_train) >= 4
    /\ UniformWeights(dataset_orig_train)
    /\ \E i \in DOMAIN dataset_orig_train :
          dataset_transf_train[i].w # dataset_orig_train[i].w

\* C14: with shuffling and a seed given, split() is a function of the
\* dataset, the cut points and the seed: the split cell run a second time
\* with the same arguments returns the same datasets, row for row, wherever
\* the global generator stood.
C14_SplitDeterministicInSeed ==
    (pc = "split" /\ folds_prev # <<>> /\ shuffle_arg /\ seed_arg # -1)
    => /\ Len(folds) = Len(folds_prev)
       /\ \A k \in DOMAIN folds : folds[k] = folds_prev[k]

\* a seeded, shuffled split of at least four rows has been run twice and
\* did reorder the rows
C14_Witness ==
    /\ pc = "split"
    /\ folds_prev # <<>>
    /\ shuffle_arg
    /\ seed_arg = 1
    /\ Len(dataset_orig) >= 4
    /\ Len(cuts) = 2
    /\ folds_prev[1] # <<>>
    /\ folds_prev[1] # SubSeq(dataset_orig, 1, Len(folds_prev[1]))

\* C15: split() and the metric calls never change the dataset they are given:
\* after split() the loaded dataset has the same rows, order, labels, features,
\* protected attributes and weights; a metric cell leaves the folds, the loaded
\* dataset and the measured dataset as they were, so that evaluating the
\* metrics again right after gives the numbers just obtained.
C15_NoInputMutation ==
    [][/\ (pc = "loaded" /\ pc' = "split") => dataset_orig' = dataset_orig
       /\ (pc = "split" /\ pc' = "measured")
          => /\ folds' = folds
             /\ dataset_orig' = dataset_orig
             /\ Measure(dataset_orig_train') = metric_orig_train'
       /\ (pc = "reweighed" /\ pc' = "remeasured")
          => /\ folds' = folds
             /\ dataset_orig' = dataset_orig
             /\ dataset_transf_train' = dataset_transf_train
             /\ Measure(dataset_transf_train') = metric_transf_train']_vars

\* a shuffled split that reordered the rows has been made and measured, and
\* the loaded dataset is still in the order it was loaded in
C15_Witness ==
    /\ pc = "measured"
    /\ shuffle_arg
    /\ Len(dataset_orig) >= 4
    /\ folds[1] # <<>>
    /\ folds[1] # SubSeq(dataset_orig, 1, Len(folds[1]))
    /\ \A i \in DOMAIN dataset_orig : dataset_orig[i].name = i - 1
    /\ metric_orig_train # NoMetric

\* C16: fit_transform applied to a dataset it returned leaves every row
\* weight unchanged, and the metrics measured after any further application
\* are 0 (mean difference) and 1 (disparate impact).
C16_ReweighingIdempotent ==
    [][/\ (pc = "remeasured" /\ pc' = "reweighed")
          => dataset_transf_train' = dataset_transf_train
       /\ (pc = "reweighed" /\ pc' = "remeasured" /\ fits >= 2)
          => /\ metric_transf_train'.mean_difference = Zero
             /\ metric_transf_train'.disparate_impact = One]_vars

\* the same for the training datasets whose four cells are all non-empty,
\* where the second fit moreover learns four weights of 1
IdempotentOnFourCells ==
    [][(HasSplit /\ FourCellsNonEmpty(dataset_orig_train))
       => /\ (pc = "remeasured" /\ pc' = "reweighed")
             => /\ dataset_transf_train' = dataset_transf_train
                /\ learned_weights(RW') = <<One, One, One, One>>
          /\ (pc = "reweighed" /\ pc' = "remeasured")
             => /\ metric_transf_train'.mean_difference = Zero
                /\ metric_transf_train'.disparate_impact = One]_vars

\* a dataset with four non-empty cells whose weights the first fit changed
\* has been reweighed a second time
RefitReached ==
    /\ pc = "reweighed"
    /\ fits = 2
    /\ FourCellsNonEmpty(dataset_orig_train)
    /\ ~UniformWeights(dataset_transf_train)

AllOnes == <<One, One, One, One>>

\* C17: a training dataset with four non-empty cells, all weights 1.0 and a
\* mean difference of exactly 0 is a fixed point of fit_transform: the four
\* learned weights are 1 and the returned dataset has the weights of the
\* input; conversely, four learned weights of 1 mean the mean difference of
\* the input is 0.
C17_FairIsFixedPoint ==
    (Reweighed /\ fits = 1)
    => /\ (FourCellsNonEmpty(dataset_orig_train) /\ UniformWeights(dataset_orig_train)
              /\ metric_orig_train.mean_difference = Zero)
          => /\ learned_weights(RW) = AllOnes
             /\ dataset_transf_train = dataset_orig_train
       /\ learned_weights(RW) = AllOnes
          => metric_orig_train.mean_difference = Zero

\* a fair training dataset with unequal group sizes or unequal label totals
\* has been reweighed
C17_Witness ==
    /\ pc = "reweighed"
    /\ fits = 1
    /\ FourCellsNonEmpty(dataset_orig_train)
    /\ metric_orig_train.mean_difference = Zero
    /\ Cardinality(RowsOf(dataset_orig_train, 1, favorable_label)) >= 2
    /\ learned_weights(RW) = AllOnes

\* C18: for a training dataset with four non-empty cells (all weights 1.0)
\* every learned weight is strictly positive, and the four statements
\* w(privileged, favorable) < 1, w(unprivileged, favorable) > 1,
\* w(privileged, unfavorable) > 1, w(unprivileged, unfavorable) < 1 are all
\* true or all false, true exactly when the mean difference of the dataset is
\* negative.
C18_WeightPattern ==
    (Reweighed /\ fits = 1 /\ FourCellsNonEmpty(dataset_orig_train)
        /\ UniformWeights(dataset_orig_train))
    => LET negative == FLess(metric_orig_train.mean_difference, Zero)
       IN  /\ FLess(RW.w_p_fav, One) <=> negative
           /\ FLess(One, RW.w_up_fav) <=> negative
           /\ FLess(One, RW.w_p_unfav) <=> negative
           /\ FLess(RW.w_up_unfav, One) <=> negative
           /\ \A k \in 1..4 : FLess(Zero, learned_weights(RW)[k])

\* a training dataset skewed against the unprivileged group, like the
\* notebook's, has been reweighed: the four weights are below, above, above
\* and below 1
C18_Witness ==
    /\ pc = "reweighed"
    /\ fits = 1
    /\ FourCellsNonEmpty(dataset_orig_train)
    /\ FLess(metric_orig_train.mean_difference, Zero)
    /\ FLess(RW.w_p_fav, One)
    /\ FLess(One, RW.w_p_unfav)
    /\ FLess(One, RW.w_up_fav)
    /\ FLess(RW.w_up_unfav, One)

\* the two metrics give the same verdict: equal, below or above the target
SameVerdict(m) ==
    /\ m.mean_difference = Zero <=> m.disparate_impact = One
    /\ FLess(m.mean_difference, Zero) <=> FLess(m.disparate_impact, One)
    /\ FLess(Zero, m.mean_difference) <=> FLess(One, m.disparate_impact)

BothDefined(ds) ==
    /\ GroupRows(ds, 0) # {}
    /\ GroupRows(ds, 1) # {}
    /\ GroupRate(ds, 1) # Zero

\* C19: on every measured dataset with two non-empty groups and a non-zero
\* privileged favorable rate, mean_difference() = 0 exactly when
\* disparate_impact() = 1, mean_difference() < 0 exactly when
\* disparate_impact() < 1, and mean_difference() > 0 exactly when
\* disparate_impact() > 1.
C19_MetricsAgree ==
    /\ (pc \in {"measured", "reweighed", "remeasured"} /\ BothDefined(dataset_orig_train))
       => SameVerdict(metric_orig_train)
    /\ (pc = "remeasured" /\ BothDefined(dataset_transf_train))
       => SameVerdict(metric_transf_train)

\* a reweighed dataset that is still unfair (a cell was empty) has been
\* measured, and both metrics are below their targets
C19_Witness ==
    /\ pc = "remeasured"
    /\ BothDefined(dataset_transf_train)
    /\ ~UniformWeights(dataset_transf_train)
    /\ FLess(metric_transf_train.mean_difference, Zero)
    /\ FLess(Zero, metric_transf_train.disparate_impact)
    /\ FLess(metric_transf_train.disparate_impact, One)

RECURSIVE Concat(_)
Concat(fs) == IF fs = <<>> THEN <<>> ELSE Head(fs) \o Concat(Tail(fs))

\* s holds the rows of ds, each exactly once, in some order
IsPermutationOf(s, ds) ==
    /\ Len(s) = Len(ds)
    /\ \A j \in DOMAIN ds : \E i \in DOMAIN s : s[i] = ds[j]

\* C20: the datasets split() returns are consecutive slices of one row
\* order: joined in the order returned they are the loaded dataset itself
\* when shuffle is off and a permutation of its rows when shuffle is on, every
\* row with its name, features, label, protected attribute and weight.
C20_SplitIsConsecutiveSlices ==
    HasSplit
    => /\ ~shuffle_arg => Concat(folds) = dataset_orig
       /\ shuffle_arg => IsPermutationOf(Concat(folds), dataset_orig)

\* the same for the cut points the specification admits
SlicesOnValidCuts == (HasSplit /\ ValidCuts(cuts)) => C20_SplitIsConsecutiveSlices

\* a shuffled three-way split with valid cut points that reordered the rows
SlicesReached ==
    /\ HasSplit
    /\ ValidCuts(cuts)
    /\ Len(cuts) = 2
    /\ shuffle_arg
    /\ Len(dataset_orig) >= 5
    /\ Concat(folds) # dataset_orig

=============================================================================
